---- MODULE Spec2Model ----
(***************************************************************************)
(* Model of the Obsidian "AI Privacy Audit" plugin.                        *)
(*                                                                         *)
(* The repository holds two builds of the plugin: src/main.ts (HTTP by     *)
(* fetch) and src/unnamed/part_001 (HTTP by requestUrl).  The variable     *)
(* variant selects the build; it never changes in a behaviour.             *)
(*                                                                         *)
(* Strings are sequences of atoms (an atom is one character, or one fixed  *)
(* chunk of a literal of the source).  JavaScript values are pairs         *)
(* <<type, payload>> so that the || fallbacks, trim() and Object.assign    *)
(* are computed the way the source computes them.                          *)
(***************************************************************************)
EXTENDS Integers, Sequences, FiniteSets, TLC

VARIABLES
  variant,       \* which build runs: "fetch" (src/main.ts) or "requestUrl" (part_001)
  settings,      \* this.settings
  pc,            \* per invocation slot: where runAudit is suspended
  note,          \* editor.getValue() of the slot's current/last invocation
  resp,          \* the HTTP responses the slot's invocation received (at most one)
  responseText,  \* the local responseText / auditText of runAudit
  err,           \* the error the slot's invocation ended with (NoErr when none)
  notices,       \* every Notice the slot's current/last invocation created, in order
  sent,          \* the HTTP requests the slot's current/last invocation made, in order
  leaves,        \* workspace leaves created in the right sidebar, in creation order
  myLeaf,        \* the local `leaf` / `created` of a suspended showAuditInSidebar
  wrote,         \* history: the slot's invocation created a leaf or wrote a panel
  lastArrived,   \* history: the slot whose HTTP response arrived most recently
  lastShow,      \* history: the most recent setContent call
  showOverlap,   \* history: some show began while another show was suspended
  persisted,     \* the plugin's data.json, as loadData() would return it
  pendingSaves,  \* the texts of the saveData() calls in flight, in the order started
  pristine,      \* history: no field of the settings form has been changed yet
  saved          \* history: some saveData() call has completed

vars == <<variant, settings, pc, note, sent, resp, responseText, err, notices,
          leaves, myLeaf, wrote, lastArrived, lastShow, showOverlap,
          persisted, pendingSaves, pristine, saved>>

----------------------------------------------------------------------------
(* Bounds *)

\* longest note text tried
MaxNoteLen == 2

\* number of audit invocations that may be in flight at once
NumTasks == 2

\* number of saveData() calls that may be in flight at once
MaxPendingSaves == 2

Tasks == 1..NumTasks

----------------------------------------------------------------------------
(* JavaScript values *)

Str(s) == <<"string", s>>
Num(n) == <<"number", n>>
Null == <<"null", 0>>
Undefined == <<"undefined", 0>>

IsStr(v) == v[1] = "string"

\* JavaScript truthiness, as used by `a || b` and `!a`
Truthy(v) ==
  CASE v[1] = "string" -> v[2] # <<>>
    [] v[1] = "number" -> v[2] # 0
    [] OTHER -> FALSE

\* a || b
OrElse(a, b) == IF Truthy(a) THEN a ELSE b

Whitespace == {" ", "\n"}

RECURSIVE TrimStart(_)
TrimStart(s) ==
  IF s # <<>> /\ Head(s) \in Whitespace THEN TrimStart(Tail(s)) ELSE s

RECURSIVE TrimEnd(_)
TrimEnd(s) ==
  IF s # <<>> /\ s[Len(s)] \in Whitespace THEN TrimEnd(SubSeq(s, 1, Len(s) - 1)) ELSE s

\* String.prototype.trim
Trim(s) == TrimEnd(TrimStart(s))

----------------------------------------------------------------------------
(* Settings *)

DEFAULT_SYSTEM_PROMPT == Str(<<"You are a pragmatic privacy, security, and OSINT risk auditor ...">>)

DefaultModel == Str(<<"gpt-4.1-mini">>)

DefaultMaxTokens == 900

DEFAULT_SETTINGS ==
  [openaiApiKey |-> Str(<<>>),
   model |-> DefaultModel,
   systemPrompt |-> DEFAULT_SYSTEM_PROMPT,
   maxTokens |-> Num(DefaultMaxTokens)]

\* Object.assign({}, DEFAULT_SETTINGS, blob): every own key of the blob wins,
\* whatever its value; a null blob (no data file) has no own keys.
ObjectAssign(defaults, blob) ==
  [f \in DOMAIN defaults |-> IF f \in DOMAIN blob THEN blob[f] ELSE defaults[f]]

LoadSettings(blob) == ObjectAssign(DEFAULT_SETTINGS, blob)

\* persisted blobs tried: data.json as the settings form or a hand edit left it
ApiKeys == {Str(<<>>), Str(<<" ">>), Str(<<" ", "k">>), Null}
Prompts == {Str(<<>>), Str(<<"p">>)}
TokenBounds == {Num(0), Num(5)}

Blobs ==
  {<<>>}
  \cup {[openaiApiKey |-> k] : k \in ApiKeys}
  \cup {[openaiApiKey |-> Str(<<" ", "k">>), systemPrompt |-> p, maxTokens |-> n] :
          p \in Prompts, n \in TokenBounds}
  \cup {[openaiApiKey |-> Str(<<"k">>), model |-> Str(<<>>), maxTokens |-> Null]}

----------------------------------------------------------------------------
(* The audit requester: request construction *)

Variants == {"fetch", "requestUrl"}

\* the literal before ${noteContent} in the user message, up to the colon
UserPrefix(v) ==
  IF v = "fetch"
  THEN <<"Here is the full text of my note. Please perform the privacy ", "&",
         " security audit described:">>
  ELSE <<"Here is the full text of my note. Please perform the privacy ", "and",
         " security audit described:">>

\* Faulty variant of UserContent: the note is trimmed before it is sent.
UserContentTrimmed(v, noteContent) ==
  Str(UserPrefix(v) \o <<"\n", "\n">> \o Trim(noteContent))

\* the template literal of the user message: prefix, "\n\n", noteContent
UserContent(v, noteContent) == Str(UserPrefix(v) \o <<"\n", "\n">> \o noteContent)

\* this.settings.systemPrompt || DEFAULT_SYSTEM_PROMPT
SystemPromptOf(s) == OrElse(s.systemPrompt, DEFAULT_SYSTEM_PROMPT)

\* Faulty variant of MaxTokensOf: the setting is ignored.
MaxTokensIgnored(s) == Num(DefaultMaxTokens)

\* this.settings.maxTokens || 900
MaxTokensOf(s) == OrElse(s.maxTokens, Num(DefaultMaxTokens))

\* this.settings.model || "gpt-4.1-mini"
ModelOf(s) == OrElse(s.model, DefaultModel)

Messages(v, s, noteContent) ==
  <<[role |-> "system", content |-> SystemPromptOf(s)],
    [role |-> "user", content |-> UserContent(v, noteContent)]>>

\* the argument of fetch / requestUrl; body is the object handed to JSON.stringify
BuildRequest(v, s, apiKey, noteContent) ==
  [url |-> "https://api.openai.com/v1/chat/completions",
   method |-> "POST",
   contentType |-> "application/json",
   authorization |-> <<"Bearer ">> \o apiKey,
   body |-> [model |-> ModelOf(s),
             messages |-> Messages(v, s, noteContent),
             temperature |-> "0.1",
             max_tokens |-> MaxTokensOf(s)]]

----------------------------------------------------------------------------
(* The audit requester: responses *)

\* A response body, by what JSON.parse and choices?.[0]?.message?.content make of
\* it: text that is no JSON, JSON without the field, JSON with the field.
NoBody == [kind |-> "none", content |-> Undefined]
Malformed == [kind |-> "malformed", content |-> Undefined]
NoField == [kind |-> "nofield", content |-> Undefined]
WithContent(c) == [kind |-> "content", content |-> c]

Contents == {Str(<<>>), Str(<<"a">>), Str(<<"b">>), Null}

Responses ==
  {[status |-> 200, body |-> b] : b \in {Malformed, NoField} \cup {WithContent(c) : c \in Contents}}
  \cup {[status |-> 299, body |-> WithContent(Str(<<"a">>))],
        [status |-> 300, body |-> WithContent(Str(<<"a">>))],
        [status |-> 401, body |-> NoField],
        [status |-> 401, body |-> Malformed]}

\* Faulty variant of Ok: only client and server errors count as failures.
OkBelow400(status) == status < 400

\* Response.ok, and the range test of the requestUrl build
Ok(status) == status >= 200 /\ status < 300

\* Faulty variant of MessageContent: the wrong choice is read, so nothing is found.
MessageContentWrongIndex(body) == Undefined

\* data.choices?.[0]?.message?.content
MessageContent(body) == IF body.kind = "content" THEN body.content ELSE Undefined

NoErr == [kind |-> "none", status |-> 0, body |-> NoBody]
Error(kind) == [kind |-> kind, status |-> 0, body |-> NoBody]

\* new Error(`OpenAI API error: ${status} ... - ${text}`)
RemoteError(r) == [kind |-> "RemoteError", status |-> r.status, body |-> r.body]

\* What callOpenAI does with a complete response: the error it throws, or NoErr
\* and the message it returns.
ResponseError(r) ==
  IF ~Ok(r.status) THEN RemoteError(r)
  ELSE IF r.body.kind = "malformed" THEN Error("ParseError")
  ELSE IF ~Truthy(MessageContent(r.body)) THEN Error("EmptyResponse")
  ELSE NoErr

----------------------------------------------------------------------------
(* The result panel *)

PRIVACY_AUDIT_VIEW == "privacy-audit-view"

\* workspace.getLeavesOfType(PRIVACY_AUDIT_VIEW), as indices into leaves
GetLeavesOfType(ls) == {k \in 1..Len(ls) : ls[k].type = PRIVACY_AUDIT_VIEW}

\* getLeavesOfType(...)[0]; 0 stands for undefined
FirstLeafOfType(ls) ==
  IF GetLeavesOfType(ls) = {} THEN 0
  ELSE CHOOSE k \in GetLeavesOfType(ls) : \A m \in GetLeavesOfType(ls) : k <= m

\* Faulty variant of SetContent: container.empty() is forgotten.
SetContentAppend(leaf, markdown) == [leaf EXCEPT !.blocks = Append(@, markdown)]

\* PrivacyAuditView.setContent: container.empty(), then one <pre> whose
\* textContent is the text.  blocks are the children of the content container.
SetContent(leaf, markdown) == [leaf EXCEPT !.blocks = <<markdown>>]

\* What the host does when asked for a right-sidebar leaf and a view state:
\* no leaf at all, or a new leaf whose view type getLeavesOfType sees either
\* as soon as setViewState is called or only when its promise resolves.
HostAllocations == {"null", "eager", "lazy"}

NewLeaf(how) ==
  [type |-> IF how = "eager" THEN PRIVACY_AUDIT_VIEW ELSE "empty", blocks |-> <<>>]

----------------------------------------------------------------------------
(* Notices *)

Notice(kind, detail) == <<kind, detail>>

\* Faulty variant of FailedNotice: the error is only logged.
FailedNoticeSilent(v, e) == Notice("Logged", e)

\* the Notice of runAudit's catch block: fixed text in the fetch build, the
\* error's message appended in the requestUrl build
FailedNotice(v, e) == IF v = "fetch" THEN Notice("Failed", NoErr) ELSE Notice("Failed", e)

NoShow == [leaf |-> 0, text |-> Undefined, by |-> 0]

----------------------------------------------------------------------------
(* Initial state: onload has run, no audit has been started *)

InitWith(blobs) ==
  /\ variant \in Variants
  /\ \E blob \in blobs : persisted = blob /\ settings = LoadSettings(blob)
  /\ pendingSaves = <<>>
  /\ pristine = TRUE
  /\ saved = FALSE
  /\ pc = [i \in Tasks |-> "idle"]
  /\ note = [i \in Tasks |-> <<>>]
  /\ sent = [i \in Tasks |-> <<>>]
  /\ resp = [i \in Tasks |-> <<>>]
  /\ responseText = [i \in Tasks |-> Undefined]
  /\ err = [i \in Tasks |-> NoErr]
  /\ notices = [i \in Tasks |-> <<>>]
  /\ leaves = <<>>
  /\ myLeaf = [i \in Tasks |-> 0]
  /\ wrote = [i \in Tasks |-> FALSE]
  /\ lastArrived = [task |-> 0, overlap |-> FALSE]
  /\ lastShow = NoShow
  /\ showOverlap = FALSE

----------------------------------------------------------------------------
(* runAudit *)

(***************************************************************************)
(* Granularity.  JavaScript runs each continuation to its next await, so   *)
(* an action is the code between two awaits whose promise the host or the  *)
(* network settles: await fetch / requestUrl, await res.text(),            *)
(* await res.json(), await setViewState.  Other invocations may run at     *)
(* each of these.  The awaits of the plugin's own async functions          *)
(* (callOpenAI, showAuditInSidebar returning to runAudit, and              *)
(* `await leaf?.setViewState` on a null leaf) only defer the continuation; *)
(* the code before such a hop touches nothing but the invocation's own     *)
(* locals, so it commutes with every other invocation's steps and the hop  *)
(* is folded into the action that precedes it.                             *)
(***************************************************************************)

RECURSIVE SeqsUpTo(_, _)
SeqsUpTo(S, n) ==
  IF n = 0 THEN {<<>>}
  ELSE SeqsUpTo(S, n - 1) \cup {Append(s, c) : s \in SeqsUpTo(S, n - 1), c \in S}

\* note texts tried
Notes == SeqsUpTo({" ", "a"}, MaxNoteLen)

\* Faulty variant of IsBlankNote: the trim is forgotten.
IsBlankNoteNoTrim(content) == content = <<>>

\* !content || content.trim().length === 0
IsBlankNote(content) == content = <<>> \/ Len(Trim(content)) = 0

\* runAudit's catch block: one Notice, and the promise of runAudit resolves
Catch(i, e) ==
  /\ notices' = [notices EXCEPT ![i] = Append(@, FailedNotice(variant, e))]
  /\ err' = [err EXCEPT ![i] = e]
  /\ pc' = [pc EXCEPT ![i] = "idle"]

\* showAuditInSidebar(auditText) up to its first suspension, and, where it does
\* not suspend, the rest of runAudit's try block.
ShowAuditInSidebar(i, auditText) ==
  /\ showOverlap' = (showOverlap \/ \E j \in Tasks \ {i} : pc[j] = "setViewState")
  /\ LET k == FirstLeafOfType(leaves) IN
     IF k # 0
     THEN \* an audit leaf exists: reuse it
          /\ leaves' = [leaves EXCEPT ![k] = SetContent(@, auditText)]
          /\ lastShow' = [leaf |-> k, text |-> auditText, by |-> i]
          /\ wrote' = [wrote EXCEPT ![i] = TRUE]
          /\ notices' = [notices EXCEPT ![i] = Append(@, Notice("Success", NoErr))]
          /\ pc' = [pc EXCEPT ![i] = "idle"]
          /\ UNCHANGED <<err, myLeaf>>
     ELSE \E how \in HostAllocations :
          IF how = "null"
          THEN \* getRightLeaf(false) returned null
               /\ IF variant = "fetch"
                  THEN \* leaf?.view is undefined: view.setContent throws a
                       \* TypeError, which runAudit's catch block handles
                       Catch(i, Error("PanelUnavailable"))
                  ELSE \* a Notice and an early return; runAudit goes on to
                       \* its success Notice
                       /\ notices' = [notices EXCEPT ![i] =
                            @ \o <<Notice("CouldNotOpen", NoErr), Notice("Success", NoErr)>>]
                       /\ err' = [err EXCEPT ![i] = Error("PanelUnavailable")]
                       /\ pc' = [pc EXCEPT ![i] = "idle"]
               /\ UNCHANGED <<leaves, lastShow, wrote, myLeaf>>
          ELSE \* a new leaf; suspended at await setViewState(...)
               /\ leaves' = Append(leaves, NewLeaf(how))
               /\ myLeaf' = [myLeaf EXCEPT ![i] = Len(leaves) + 1]
               /\ wrote' = [wrote EXCEPT ![i] = TRUE]
               /\ pc' = [pc EXCEPT ![i] = "setViewState"]
               /\ UNCHANGED <<lastShow, notices, err>>

\* Faulty variant of HandleResponse: an error is also written into the panel.
HandleResponseShowsError(i, r) ==
  LET e == ResponseError(r)
      k == FirstLeafOfType(leaves)
  IN
  IF e # NoErr
  THEN /\ Catch(i, e)
       /\ leaves' = IF k # 0 THEN [leaves EXCEPT ![k] = SetContent(@, Str(<<"error">>))]
                    ELSE leaves
       /\ UNCHANGED <<responseText, myLeaf, wrote, lastShow, showOverlap>>
  ELSE /\ responseText' = [responseText EXCEPT ![i] = MessageContent(r.body)]
       /\ ShowAuditInSidebar(i, MessageContent(r.body))

\* callOpenAI from its complete response on, then the rest of the try block
HandleResponse(i, r) ==
  LET e == ResponseError(r) IN
  IF e # NoErr
  THEN /\ Catch(i, e)
       /\ UNCHANGED <<responseText, leaves, myLeaf, wrote, lastShow, showOverlap>>
  ELSE /\ responseText' = [responseText EXCEPT ![i] = MessageContent(r.body)]
       /\ ShowAuditInSidebar(i, MessageContent(r.body))

\* The command callback: runAudit up to its first suspension.
RunAudit(i, texts) ==
  /\ pc[i] = "idle"
  /\ \E content \in texts :
     /\ note' = [note EXCEPT ![i] = content]
     /\ resp' = [resp EXCEPT ![i] = <<>>]
     /\ responseText' = [responseText EXCEPT ![i] = Undefined]
     /\ myLeaf' = [myLeaf EXCEPT ![i] = 0]
     /\ wrote' = [wrote EXCEPT ![i] = FALSE]
     /\ IF ~IsStr(settings.openaiApiKey)
        THEN \* .trim() of a non-string throws before the try block
             /\ err' = [err EXCEPT ![i] = Error("TypeError")]
             /\ notices' = [notices EXCEPT ![i] = <<>>]
             /\ sent' = [sent EXCEPT ![i] = <<>>]
             /\ UNCHANGED pc
        ELSE LET apiKey == Trim(settings.openaiApiKey[2]) IN
             IF apiKey = <<>>
             THEN /\ err' = [err EXCEPT ![i] = Error("MissingApiKey")]
                  /\ notices' = [notices EXCEPT ![i] = <<Notice("MissingApiKey", NoErr)>>]
                  /\ sent' = [sent EXCEPT ![i] = <<>>]
                  /\ UNCHANGED pc
             ELSE IF IsBlankNote(content)
             THEN /\ err' = [err EXCEPT ![i] = Error("EmptyInput")]
                  /\ notices' = [notices EXCEPT ![i] = <<Notice("EmptyNote", NoErr)>>]
                  /\ sent' = [sent EXCEPT ![i] = <<>>]
                  /\ UNCHANGED pc
             ELSE /\ err' = [err EXCEPT ![i] = NoErr]
                  /\ notices' = [notices EXCEPT ![i] = <<Notice("Running", NoErr)>>]
                  /\ sent' = [sent EXCEPT ![i] = <<BuildRequest(variant, settings, apiKey, content)>>]
                  /\ pc' = [pc EXCEPT ![i] = "http"]
  /\ UNCHANGED <<variant, settings, persisted, pendingSaves, pristine, saved, leaves, lastArrived, lastShow, showOverlap>>

Arrive(i, r) ==
  /\ resp' = [resp EXCEPT ![i] = <<r>>]
  /\ lastArrived' = [task |-> i, overlap |-> \E j \in Tasks \ {i} : pc[j] # "idle"]

\* fetch build: the promise of fetch resolves with the response head
FetchResolve(i, rs) ==
  /\ variant = "fetch"
  /\ pc[i] = "http"
  /\ \E r \in rs :
     /\ Arrive(i, r)
     /\ pc' = [pc EXCEPT ![i] = IF Ok(r.status) THEN "json" ELSE "text"]
  /\ UNCHANGED <<variant, settings, persisted, pendingSaves, pristine, saved, note, sent, responseText, err, notices, leaves,
                 myLeaf, wrote, lastShow, showOverlap>>

\* fetch build: res.text() resolves, the error is thrown and caught
TextResolve(i) ==
  /\ pc[i] = "text"
  /\ Catch(i, RemoteError(resp[i][1]))
  /\ UNCHANGED <<variant, settings, persisted, pendingSaves, pristine, saved, note, sent, resp, responseText, leaves, myLeaf,
                 wrote, lastArrived, lastShow, showOverlap>>

\* fetch build: res.json() settles
JsonResolve(i) ==
  /\ pc[i] = "json"
  /\ HandleResponse(i, resp[i][1])
  /\ UNCHANGED <<variant, settings, persisted, pendingSaves, pristine, saved, note, sent, resp, lastArrived>>

\* requestUrl build: the promise of requestUrl resolves with the whole response
RequestUrlResolve(i, rs) ==
  /\ variant = "requestUrl"
  /\ pc[i] = "http"
  /\ \E r \in rs :
     /\ Arrive(i, r)
     /\ HandleResponse(i, r)
  /\ UNCHANGED <<variant, settings, persisted, pendingSaves, pristine, saved, note, sent>>

\* the promise of fetch / requestUrl rejects (no response)
HttpReject(i) ==
  /\ pc[i] = "http"
  /\ Catch(i, Error("NetworkError"))
  /\ UNCHANGED <<variant, settings, persisted, pendingSaves, pristine, saved, note, sent, resp, responseText, leaves, myLeaf,
                 wrote, lastArrived, lastShow, showOverlap>>

\* await setViewState(...) resolves: the leaf shows the audit view, the text is
\* written, and runAudit ends with its success Notice
SetViewStateResolve(i) ==
  /\ pc[i] = "setViewState"
  /\ leaves' = [leaves EXCEPT ![myLeaf[i]] =
        SetContent([@ EXCEPT !.type = PRIVACY_AUDIT_VIEW], responseText[i])]
  /\ lastShow' = [leaf |-> myLeaf[i], text |-> responseText[i], by |-> i]
  /\ notices' = [notices EXCEPT ![i] = Append(@, Notice("Success", NoErr))]
  /\ pc' = [pc EXCEPT ![i] = "idle"]
  /\ UNCHANGED <<variant, settings, persisted, pendingSaves, pristine, saved, note, sent, resp, responseText, err, myLeaf, wrote,
                 lastArrived, showOverlap>>

----------------------------------------------------------------------------
(* The settings form and the settings store *)

NaN == <<"NaN", 0>>

DigitChars == <<"0", "1", "2", "3", "4", "5", "6", "7", "8", "9">>

IsDigit(c) == \E d \in 1..Len(DigitChars) : DigitChars[d] = c

DigitValue(c) == (CHOOSE d \in 1..Len(DigitChars) : DigitChars[d] = c) - 1

\* the value of the longest prefix of digits of s, read after acc
RECURSIVE DigitPrefixValue(_, _)
DigitPrefixValue(s, acc) ==
  IF s # <<>> /\ IsDigit(Head(s))
  THEN DigitPrefixValue(Tail(s), 10 * acc + DigitValue(Head(s)))
  ELSE acc

\* parseInt(value, 10): leading whitespace is skipped, a sign is read, then
\* the digits up to the first other character; no digit at all gives NaN.
ParseInt(s) ==
  LET t == TrimStart(s)
      signed == t # <<>> /\ Head(t) \in {"-", "+"}
      u == IF signed THEN Tail(t) ELSE t
  IN IF u = <<>> \/ ~IsDigit(Head(u)) THEN NaN
     ELSE Num((IF signed /\ Head(t) = "-" THEN -1 ELSE 1) * DigitPrefixValue(u, 0))

\* What saveData(this.settings) writes and loadData() reads back: JSON keeps
\* every own key whose value is not undefined, with its value.
Serialize(s) == [f \in {g \in DOMAIN s : s[g] # Undefined} |-> s[f]]

\* saveSettings(): saveData is called with the settings as they are now, and
\* the write is in flight until its promise resolves
SaveSettings(s) ==
  /\ Len(pendingSaves) < MaxPendingSaves
  /\ pendingSaves' = Append(pendingSaves, Serialize(s))

\* texts typed into the fields of the form
KeyTexts == {<<" ", "k">>}
ModelTexts == {<<"m", " ">>}
TokenTexts == {<<"a">>, <<" ", "1", "0", "a">>}
PromptTexts == {<<>>}

\* onChange of the API key field
ChangeApiKey ==
  /\ \E value \in KeyTexts :
       LET s == [settings EXCEPT !.openaiApiKey = Str(Trim(value))] IN
       settings' = s /\ SaveSettings(s)
  /\ pristine' = FALSE
  /\ UNCHANGED <<variant, pc, note, sent, resp, responseText, err, notices, leaves,
                 myLeaf, wrote, lastArrived, lastShow, showOverlap, persisted, saved>>

\* onChange of the model field
ChangeModel ==
  /\ \E value \in ModelTexts :
       LET s == [settings EXCEPT !.model = Str(Trim(value))] IN
       settings' = s /\ SaveSettings(s)
  /\ pristine' = FALSE
  /\ UNCHANGED <<variant, pc, note, sent, resp, responseText, err, notices, leaves,
                 myLeaf, wrote, lastArrived, lastShow, showOverlap, persisted, saved>>

\* onChange of the max tokens field: a text that parses to no number changes
\* nothing and saves nothing
ChangeMaxTokens ==
  /\ \E value \in TokenTexts :
       LET num == ParseInt(value) IN
       IF num # NaN
       THEN LET s == [settings EXCEPT !.maxTokens = num] IN
            settings' = s /\ SaveSettings(s)
       ELSE UNCHANGED <<settings, pendingSaves>>
  /\ pristine' = FALSE
  /\ UNCHANGED <<variant, pc, note, sent, resp, responseText, err, notices, leaves,
                 myLeaf, wrote, lastArrived, lastShow, showOverlap, persisted, saved>>

\* onChange of the system prompt field
ChangeSystemPrompt ==
  /\ \E value \in PromptTexts :
       LET s == [settings EXCEPT !.systemPrompt = Str(value)] IN
       settings' = s /\ SaveSettings(s)
  /\ pristine' = FALSE
  /\ UNCHANGED <<variant, pc, note, sent, resp, responseText, err, notices, leaves,
                 myLeaf, wrote, lastArrived, lastShow, showOverlap, persisted, saved>>

\* The promise of one saveData() call resolves: its text has replaced the file.
\* No handler awaits another's save, so the writes in flight end in any order.
SaveComplete ==
  /\ \E k \in 1..Len(pendingSaves) :
       /\ persisted' = pendingSaves[k]
       /\ pendingSaves' = [j \in 1..(Len(pendingSaves) - 1) |->
                             IF j < k THEN pendingSaves[j] ELSE pendingSaves[j + 1]]
  /\ saved' = TRUE
  /\ UNCHANGED <<variant, settings, pc, note, sent, resp, responseText, err, notices,
                 leaves, myLeaf, wrote, lastArrived, lastShow, showOverlap, pristine>>

----------------------------------------------------------------------------
(* Specifications *)

\* One invocation at a time, over every settings blob, note and response tried.
Init == InitWith(Blobs)

Next ==
  \E i \in {1} :
    \/ RunAudit(i, Notes)
    \/ FetchResolve(i, Responses)
    \/ TextResolve(i)
    \/ JsonResolve(i)
    \/ RequestUrlResolve(i, Responses)
    \/ HttpReject(i)
    \/ SetViewStateResolve(i)

Spec == Init /\ [][Next]_vars

\* Up to NumTasks invocations in flight at once, the command being run again
\* before the earlier runs have ended, over a usable key and a few responses.
ConcBlobs == {[openaiApiKey |-> Str(<<"k">>)]}
ConcNotes == {<<>>, <<"a">>}
ConcResponses ==
  {[status |-> 200, body |-> WithContent(Str(<<"a">>))],
   [status |-> 200, body |-> WithContent(Str(<<"b">>))],
   [status |-> 401, body |-> NoField]}

InitConc == InitWith(ConcBlobs)

NextConc ==
  \E i \in Tasks :
    \/ RunAudit(i, ConcNotes)
    \/ FetchResolve(i, ConcResponses)
    \/ TextResolve(i)
    \/ JsonResolve(i)
    \/ RequestUrlResolve(i, ConcResponses)
    \/ HttpReject(i)
    \/ SetViewStateResolve(i)

SpecConc == InitConc /\ [][NextConc]_vars

\* The settings form in use while the command is run, one invocation at a time.
FormBlobs ==
  {<<>>,
   [openaiApiKey |-> Null],
   [openaiApiKey |-> Str(<<"k">>), maxTokens |-> Str(<<"7">>)]}
FormNotes == {<<"a">>}
FormResponses ==
  {[status |-> 200, body |-> WithContent(Str(<<"a">>))],
   [status |-> 401, body |-> NoField]}

InitForm == InitWith(FormBlobs)

NextForm ==
  \/ ChangeApiKey
  \/ ChangeModel
  \/ ChangeMaxTokens
  \/ ChangeSystemPrompt
  \/ SaveComplete
  \/ \E i \in {1} :
       \/ RunAudit(i, FormNotes)
       \/ FetchResolve(i, FormResponses)
       \/ TextResolve(i)
       \/ JsonResolve(i)
       \/ RequestUrlResolve(i, FormResponses)
       \/ HttpReject(i)
       \/ SetViewStateResolve(i)

SpecForm == InitForm /\ [][NextForm]_vars


----------------------------------------------------------------------------
(* Vocabulary of the properties *)

AllWhitespace(s) == \A k \in 1..Len(s) : s[k] \in Whitespace

Falsy(v) == v \in {Str(<<>>), Num(0), Null, Undefined}

\* the slot has run the command at least once
Started(i) == pc[i] # "idle" \/ err[i] # NoErr \/ notices[i] # <<>>

\* callOpenAI has dealt with the response the slot received
Handled(i) == resp[i] # <<>> /\ pc[i] \notin {"text", "json"}

NoticeKinds(i) == {notices[i][k][1] : k \in 1..Len(notices[i])}

FailureNoticeKinds == {"MissingApiKey", "EmptyNote", "Failed", "CouldNotOpen"}

FailureNotices(i) == {k \in 1..Len(notices[i]) : notices[i][k][1] \in FailureNoticeKinds}

\* a 2xx status
Success2xx(status) == 200 <= status /\ status <= 299

KeyUsable == IsStr(settings.openaiApiKey) /\ ~AllWhitespace(settings.openaiApiKey[2])

----------------------------------------------------------------------------
(* C1 *)

\* C1: an invocation makes a network call only if the API key and the note text
\* are both non-blank; a blank key ends it with MissingApiKey, a usable key with
\* a blank note ends it with EmptyInput, and neither makes a network call.
C1_NoCallOnBlankInput ==
  \A i \in Tasks :
    /\ sent[i] # <<>> => KeyUsable /\ ~AllWhitespace(note[i])
    /\ (Started(i) /\ IsStr(settings.openaiApiKey) /\ ~KeyUsable)
         => err[i].kind = "MissingApiKey" /\ sent[i] = <<>> /\ pc[i] = "idle"
    /\ (Started(i) /\ KeyUsable /\ AllWhitespace(note[i]))
         => err[i].kind = "EmptyInput" /\ sent[i] = <<>> /\ pc[i] = "idle"

C1_Witness ==
  \E i \in Tasks :
    /\ settings.openaiApiKey = Str(<<" ", "k">>)
    /\ note[i] = <<" ">>
    /\ err[i].kind = "EmptyInput"
    /\ sent[i] = <<>>

----------------------------------------------------------------------------
(* C2 *)

SpecPrefix ==
  <<"Here is the full text of my note. Please perform the privacy ", "and",
    " security audit described:">>

TwoMessagesWithPrefix(i, prefix) ==
  LET m == sent[i][1].body.messages IN
  /\ Len(m) = 2
  /\ m[1].role = "system"
  /\ m[2].role = "user"
  /\ m[2].content = Str(prefix \o <<"\n", "\n">> \o note[i])

\* C2 as stated: every request holds exactly the messages [system, user], and the
\* user message is the prefix "... privacy and security audit described:", a
\* blank line, and the note text verbatim.
C2_Original == \A i \in Tasks : sent[i] # <<>> => TwoMessagesWithPrefix(i, SpecPrefix)

\* C2 amended: the same, the prefix reading "privacy & security" in src/main.ts
\* and "privacy and security" in the requestUrl build.
C2_UserMessageVerbatim ==
  \A i \in Tasks :
    sent[i] # <<>> =>
      TwoMessagesWithPrefix(i,
        IF variant = "fetch"
        THEN <<"Here is the full text of my note. Please perform the privacy ", "&",
               " security audit described:">>
        ELSE SpecPrefix)

C2_Witness ==
  \E i \in Tasks : sent[i] # <<>> /\ note[i] = <<" ", "a">> /\ variant = "fetch"

----------------------------------------------------------------------------
(* C3 *)

\* C3 as stated: the system message is config.systemPrompt and max_tokens is
\* config.maxTokens, whatever their values; temperature is 0.1.
C3_Original ==
  \A i \in Tasks :
    sent[i] # <<>> =>
      /\ sent[i][1].body.messages[1].content = settings.systemPrompt
      /\ sent[i][1].body.max_tokens = settings.maxTokens
      /\ sent[i][1].body.temperature = "0.1"

\* C3 amended: the system message is config.systemPrompt unless that is empty
\* (or otherwise falsy), and then the default prompt; max_tokens is
\* config.maxTokens unless that is 0 (or otherwise falsy), and then 900;
\* temperature is 0.1.
C3_ConfigFieldsWithFallback ==
  \A i \in Tasks :
    sent[i] # <<>> =>
      /\ sent[i][1].body.messages[1].content =
           IF Falsy(settings.systemPrompt) THEN DEFAULT_SYSTEM_PROMPT
           ELSE settings.systemPrompt
      /\ sent[i][1].body.max_tokens =
           IF Falsy(settings.maxTokens) THEN Num(900) ELSE settings.maxTokens
      /\ sent[i][1].body.temperature = "0.1"

C3_Witness ==
  \E i \in Tasks :
    /\ sent[i] # <<>>
    /\ settings.systemPrompt = Str(<<>>)
    /\ settings.maxTokens = Num(0)

----------------------------------------------------------------------------
(* C4 *)

\* the slot's invocation made the most recent panel write
LastWriter(i) == pc[i] = "idle" /\ wrote[i] /\ lastShow.by = i

ReturnedAndShown(i, content) ==
  /\ responseText[i] = content
  /\ err[i].kind \in {"none", "PanelUnavailable"}
  /\ err[i].kind = "none" => wrote[i]
  /\ LastWriter(i) =>
       /\ lastShow.text = content
       /\ leaves[lastShow.leaf].blocks = <<content>>

\* C4 as stated: whenever a 2xx response has a choices[0].message.content field,
\* callOpenAI returns that content and it is what the panel is given; only the
\* absence of the field yields EmptyResponse.
C4_Original ==
  \A i \in Tasks :
    Handled(i) =>
      LET r == resp[i][1] IN
      /\ (Success2xx(r.status) /\ r.body.kind = "content" /\ IsStr(r.body.content))
           => ReturnedAndShown(i, r.body.content)
      /\ err[i].kind = "EmptyResponse" => r.body.kind = "nofield"

\* C4 amended: whenever a 2xx response has a non-empty choices[0].message.content
\* string, callOpenAI returns that content unmodified and it is what the panel
\* is given; an absent, null or empty content yields EmptyResponse.
C4_NonEmptyContentReturned ==
  \A i \in Tasks :
    Handled(i) =>
      LET r == resp[i][1] IN
      /\ (Success2xx(r.status) /\ r.body.kind = "content" /\ IsStr(r.body.content)
            /\ r.body.content # Str(<<>>))
           => ReturnedAndShown(i, r.body.content)
      /\ err[i].kind = "EmptyResponse" <=>
           /\ Success2xx(r.status)
           /\ \/ r.body.kind = "nofield"
              \/ r.body.kind = "content" /\ r.body.content \in {Str(<<>>), Null}

C4_Witness ==
  \E i \in Tasks :
    /\ Handled(i)
    /\ resp[i][1] = [status |-> 299, body |-> WithContent(Str(<<"a">>))]
    /\ LastWriter(i)
    /\ leaves[lastShow.leaf].blocks = <<Str(<<"a">>)>>

----------------------------------------------------------------------------
(* C5 *)

\* C5: a response with a non-2xx status ends the invocation with a RemoteError
\* carrying that status and the body text, without any panel write, its last
\* Notice being the audit-failed one.
C5_RemoteError ==
  \A i \in Tasks :
    (Handled(i) /\ ~Success2xx(resp[i][1].status)) =>
      /\ err[i] = [kind |-> "RemoteError", status |-> resp[i][1].status,
                   body |-> resp[i][1].body]
      /\ ~wrote[i]
      /\ pc[i] = "idle"
      /\ notices[i][Len(notices[i])][1] = "Failed"
      /\ "Success" \notin NoticeKinds(i)

C5_Witness ==
  \E i \in Tasks :
    /\ Handled(i)
    /\ resp[i][1] = [status |-> 401, body |-> NoField]
    /\ err[i].kind = "RemoteError"

----------------------------------------------------------------------------
(* C6 *)

\* C6: in every reachable state, whatever the interleaving of invocations, the
\* workspace holds at most one leaf of the audit view type.
C6_AtMostOnePanel == Cardinality(GetLeavesOfType(leaves)) <= 1

----------------------------------------------------------------------------
(* C7 *)

AllIdle == \A i \in Tasks : pc[i] = "idle"

\* C7: when invocations overlap, then once all of them have ended the panel
\* displays the result of the response that arrived last (stated for runs that
\* end with a single panel, and with that invocation having ended in success).
C7_LastArrivedWins ==
  (/\ AllIdle
   /\ lastArrived.task # 0
   /\ lastArrived.overlap
   /\ Cardinality(GetLeavesOfType(leaves)) = 1
   /\ Len(leaves) = 1
   /\ err[lastArrived.task] = NoErr
   /\ "Success" \in NoticeKinds(lastArrived.task))
  => leaves[1].blocks = <<responseText[lastArrived.task]>>

----------------------------------------------------------------------------
(* C8 *)

\* C8: when the host allocates no leaf, the invocation ends with a failure
\* Notice and without the success Notice.
C8_NoSuccessNoticeWithoutPanel ==
  \A i \in Tasks :
    err[i].kind = "PanelUnavailable" =>
      /\ FailureNotices(i) # {}
      /\ "Success" \notin NoticeKinds(i)

----------------------------------------------------------------------------
(* C9 *)

HandledErrorKinds ==
  {"MissingApiKey", "EmptyInput", "RemoteError", "ParseError", "EmptyResponse",
   "PanelUnavailable"}

\* C9: an invocation that fails with MissingApiKey, EmptyInput, RemoteError,
\* ParseError, EmptyResponse or PanelUnavailable has created exactly one failure
\* Notice, and its slot is idle again, so that the command can be run anew.
C9_OneFailureNoticeThenIdle ==
  \A i \in Tasks :
    err[i].kind \in HandledErrorKinds =>
      /\ Cardinality(FailureNotices(i)) = 1
      /\ pc[i] = "idle"
      /\ ENABLED RunAudit(i, Notes)

C9_Witness ==
  \E i \in Tasks :
    /\ variant = "fetch"
    /\ err[i].kind = "PanelUnavailable"
    /\ Cardinality(FailureNotices(i)) = 1

----------------------------------------------------------------------------
(* C10 *)

\* C10: as long as no show has begun while another was suspended, there is at
\* most one leaf and it displays exactly one block, the text of the most recent
\* setContent: each show replaces the content and none appends to it.
C10_OverwriteNotAppend ==
  ~showOverlap =>
    /\ Len(leaves) <= 1
    /\ lastShow # NoShow =>
         /\ lastShow.leaf = 1
         /\ leaves[1].type = PRIVACY_AUDIT_VIEW
         /\ leaves[1].blocks = <<lastShow.text>>

\* two shows in succession, the second with another text and then the same
C10_Witness ==
  /\ ~showOverlap
  /\ AllIdle
  /\ wrote[1] /\ responseText[1] = Str(<<"a">>)
  /\ wrote[2] /\ responseText[2] = Str(<<"b">>)
  /\ lastShow.by = 2
  /\ leaves = <<[type |-> PRIVACY_AUDIT_VIEW, blocks |-> <<Str(<<"b">>)>>]>>

----------------------------------------------------------------------------
(* C11 *)

\* the shape PrivacyAuditSettings declares for a field
ExpectedShape(f, v) == IF f = "maxTokens" THEN v[1] = "number" ELSE v[1] = "string"

\* C11: load gives each field the persisted value when the blob has the field
\* with a value of the expected shape, and the documented default otherwise.
C11_LoadFieldwiseDefaults ==
  pristine =>
    \A f \in {"openaiApiKey", "model", "systemPrompt", "maxTokens"} :
      settings[f] =
        IF f \in DOMAIN persisted /\ ExpectedShape(f, persisted[f])
        THEN persisted[f]
        ELSE [openaiApiKey |-> Str(<<>>),
              model |-> Str(<<"gpt-4.1-mini">>),
              systemPrompt |-> DEFAULT_SYSTEM_PROMPT,
              maxTokens |-> Num(900)][f]

----------------------------------------------------------------------------
(* C12 *)

\* C12: once the saves started by the changes made to the form have all
\* completed, the persisted blob equals the in-memory configuration in every
\* field.
C12_PersistedEqualsMemory ==
  (saved /\ pendingSaves = <<>>) =>
    \A f \in DOMAIN settings : f \in DOMAIN persisted /\ persisted[f] = settings[f]

----------------------------------------------------------------------------
(* C13 *)

\* the step is one of slot i's invocation
AuditStep(i) ==
  \/ pc'[i] # pc[i]
  \/ notices'[i] # notices[i]
  \/ err'[i] # err[i]
  \/ note'[i] # note[i]

\* C13: no step of an invocation changes the configuration, the persisted blob
\* or the saves in flight; a step that changes the leaves or their text is
\* recorded for the invocation that took it; and the step that ends an
\* invocation in failure leaves every leaf and its text as they were, no
\* earlier step of that invocation having created a leaf or written a panel.
C13_FailureLeavesPanelAndSettings ==
  [][/\ leaves' # leaves => \E j \in Tasks : AuditStep(j) /\ wrote'[j]
     /\ \A i \in Tasks :
          /\ AuditStep(i) =>
               /\ settings' = settings
               /\ persisted' = persisted
               /\ pendingSaves' = pendingSaves
          /\ (AuditStep(i) /\ pc'[i] = "idle" /\ err'[i] # NoErr) =>
               /\ leaves' = leaves
               /\ ~wrote'[i]]_vars

\* a failed run after a successful one, the form having been used: the earlier
\* result is still displayed
C13_Witness ==
  /\ ~pristine
  /\ pc[1] = "idle"
  /\ err[1].kind = "RemoteError"
  /\ leaves = <<[type |-> PRIVACY_AUDIT_VIEW, blocks |-> <<Str(<<"a">>)>>]>>

====
